---- MODULE Spec2Model ----
(***************************************************************************)
(* Model of sims2_4k_ui_converter.py: the type sniffer, the uiScript       *)
(* geometry rewriter, the FontStyle.ini rewriter, the raster upscale       *)
(* dispatcher, the pre-flight checks and the DBPF package assembly.        *)
(*                                                                         *)
(* Text is a sequence of one-character strings, so that str.split,         *)
(* str.replace, str.join, int() and str() are computed as Python computes  *)
(* them.  A byte buffer is a sequence of integers 0..255.                  *)
(***************************************************************************)
EXTENDS Integers, Sequences, FiniteSets, TLC

VARIABLES
    pc,              \* position of the running handler
    UI_ZOOM_FACTOR,  \* PROPS.UI_ZOOM_FACTOR after process_parameters
    \* upscale_uiscripts
    current,         \* number of uiScript files taken from file_list
    decodable,       \* FALSE when open(path, "r").read() raised UnicodeDecodeError
    original,        \* the content of the input file at `path`
    data,            \* the local `data`
    written,         \* the content of output_path, None while not written
    \* upscale_fontstyle_ini
    fontText,        \* the content of input/FontStyle.ini, None when it does not exist
    lines,           \* the local `lines`
    output,          \* the local `output`
    fontOut,         \* the content of output/FontStyle.ini, None while not written
    \* filter_files_by_type
    content,         \* the bytes of each file of `files`
    start,           \* the local `start`
    tga, bmp, jpg, png, unknown,  \* the lists of paths
    \* __main__ and upscale_graphics
    inputFiles,      \* the extensions that have files under INPUT_DIR
    tempDirExists,   \* TEMP_DIR names a directory that exists before the run
    outputDirExists, \* OUTPUT_DIR exists before the run
    ran,             \* the stages of __main__ that have been entered
    created,         \* the files and directories the run has created
    exitStatus,      \* the exit status of the process, NoStatus while it runs
    file_types,      \* the dictionary filter_files_by_type returned
    queue,           \* the raster files upscale_graphics has still to convert
    tempFiles,       \* what the temporary tree holds for each raster file
    convertFailed,   \* the raster files whose `convert` exited non-zero
    \* create_dbpf_package
    previous,        \* output/ui.package held an archive of an earlier run at the start
    dest,            \* what output/ui.package holds
    xml_files,       \* the sidecars glob.glob returned
    handled,         \* the number of sidecars the for loop has taken
    uuids,           \* the local `uuids`
    added,           \* the calls of package.add_file_from_path, in order
    skipped          \* the sidecars reported as "Skipping duplicate", in order

scriptVars == <<current, decodable, original, data, written>>
fontVars == <<fontText, lines, output, fontOut>>
sniffVars == <<content, start, tga, bmp, jpg, png, unknown>>
inputVars == <<inputFiles, tempDirExists, outputDirExists>>
graphicsVars == <<file_types, queue, tempFiles, convertFailed>>
mainVars == <<inputVars, ran, created, exitStatus, graphicsVars>>
archVars == <<previous, dest, xml_files, handled, uuids, added, skipped>>
vars == <<pc, UI_ZOOM_FACTOR, scriptVars, fontVars, sniffVars, mainVars, archVars>>

\* what a handler leaves alone: the variables of the other handlers
notScript == <<UI_ZOOM_FACTOR, fontVars, sniffVars, mainVars, archVars>>
notFont == <<UI_ZOOM_FACTOR, scriptVars, sniffVars, mainVars, archVars>>
notSniff == <<UI_ZOOM_FACTOR, scriptVars, fontVars, mainVars, archVars>>
notMain == <<scriptVars, fontVars, sniffVars, archVars>>
notArch == <<UI_ZOOM_FACTOR, scriptVars, fontVars, sniffVars, inputVars, ran, created, graphicsVars>>

\* Python's None, where a text is expected: no sequence of characters
None == <<"None">>

\* the variables of upscale_uiscripts while it is not running
ScriptIdle ==
    /\ current = 0
    /\ decodable = TRUE
    /\ original = <<>>
    /\ data = <<>>
    /\ written = None

NoStatus == "running"

\* the raster files of the input tree, in the order glob.glob lists them
RasterPaths == <<"a.jpg", "b.jpg">>

\* the variables of __main__ and upscale_graphics while they are not running
MainIdle ==
    /\ inputFiles = {}
    /\ tempDirExists = FALSE
    /\ outputDirExists = FALSE
    /\ ran = {}
    /\ created = {}
    /\ exitStatus = NoStatus
    /\ file_types = <<>>
    /\ queue = <<>>
    /\ tempFiles = [path \in {} |-> "absent"]
    /\ convertFailed = {}

\* the variables of create_dbpf_package while it is not running
ArchIdle ==
    /\ previous = FALSE
    /\ dest = "absent"
    /\ xml_files = <<>>
    /\ handled = 0
    /\ uuids = <<>>
    /\ added = <<>>
    /\ skipped = <<>>

\* the variables of filter_files_by_type while it is not running
SniffIdle ==
    /\ content = <<>>
    /\ start = <<>>
    /\ tga = <<>>
    /\ bmp = <<>>
    /\ jpg = <<>>
    /\ png = <<>>
    /\ unknown = <<>>

\* the variables of upscale_fontstyle_ini while it is not running
FontIdle ==
    /\ fontText = None
    /\ lines = <<>>
    /\ output = <<>>
    /\ fontOut = None

----------------------------------------------------------------------------
(* Python str / int primitives on sequences of characters *)

Whitespace == {" ", "\n", "\t"}
Digits == <<"0", "1", "2", "3", "4", "5", "6", "7", "8", "9">>

\* str.startswith
StartsWith(s, p) == Len(p) <= Len(s) /\ SubSeq(s, 1, Len(p)) = p

\* str.endswith
EndsWith(s, p) == Len(p) <= Len(s) /\ SubSeq(s, Len(s) - Len(p) + 1, Len(s)) = p

\* str.find(sub) as a 1-based index, 0 when sub does not occur
RECURSIVE FindFrom(_, _, _)
FindFrom(s, sub, i) ==
    IF i + Len(sub) - 1 > Len(s) THEN 0
    ELSE IF SubSeq(s, i, i + Len(sub) - 1) = sub THEN i
    ELSE FindFrom(s, sub, i + 1)

Find(s, sub) == FindFrom(s, sub, 1)

\* str.split(sep) for a non-empty sep
RECURSIVE Split(_, _)
Split(s, sep) ==
    LET i == Find(s, sep) IN
    IF i = 0 THEN <<s>>
    ELSE <<SubSeq(s, 1, i - 1)>> \o Split(SubSeq(s, i + Len(sep), Len(s)), sep)

\* sep.join(parts)
RECURSIVE Join(_, _)
Join(parts, sep) ==
    IF parts = <<>> THEN <<>>
    ELSE IF Len(parts) = 1 THEN parts[1]
    ELSE parts[1] \o sep \o Join(Tail(parts), sep)

\* "".join(parts)
Concat(parts) == Join(parts, <<>>)

\* str.replace(old, new): every non-overlapping occurrence, left to right;
\* an empty `old` matches before every character and at the end
RECURSIVE Replace(_, _, _)
Replace(s, old, new) ==
    IF old = <<>> THEN
        IF s = <<>> THEN new ELSE new \o <<Head(s)>> \o Replace(Tail(s), old, new)
    ELSE
        LET i == Find(s, old) IN
        IF i = 0 THEN s
        ELSE SubSeq(s, 1, i - 1) \o new \o Replace(SubSeq(s, i + Len(old), Len(s)), old, new)

\* str.strip()
RECURSIVE LStrip(_)
LStrip(s) == IF s # <<>> /\ Head(s) \in Whitespace THEN LStrip(Tail(s)) ELSE s

RECURSIVE RStrip(_)
RStrip(s) ==
    IF s # <<>> /\ s[Len(s)] \in Whitespace THEN RStrip(SubSeq(s, 1, Len(s) - 1)) ELSE s

Strip(s) == RStrip(LStrip(s))

DigitValue(c) == CHOOSE d \in 0..9 : Digits[d + 1] = c

IsDigits(s) == s # <<>> /\ \A i \in 1..Len(s) : \E d \in 1..10 : Digits[d] = s[i]

RECURSIVE DigitsValue(_)
DigitsValue(s) ==
    IF s = <<>> THEN 0
    ELSE 10 * DigitsValue(SubSeq(s, 1, Len(s) - 1)) + DigitValue(s[Len(s)])

\* int(s) accepts surrounding whitespace, one optional sign and decimal digits
Unsigned(s) == IF s # <<>> /\ Head(s) \in {"+", "-"} THEN Tail(s) ELSE s

\* FALSE where int(s) raises ValueError
IsInt(s) == IsDigits(Unsigned(Strip(s)))

\* int(s)
Int_(s) ==
    LET t == Strip(s) IN
    IF t # <<>> /\ Head(t) = "-" THEN 0 - DigitsValue(Tail(t)) ELSE DigitsValue(Unsigned(t))

\* str(n) for an integer n
RECURSIVE StrNat(_)
StrNat(n) == IF n < 10 THEN <<Digits[n + 1]>> ELSE StrNat(n \div 10) \o <<Digits[(n % 10) + 1]>>

Str(n) == IF n < 0 THEN <<"-">> \o StrNat(0 - n) ELSE StrNat(n)

----------------------------------------------------------------------------
(* process_parameters: --zoom-factor, default 2 *)

ZoomFactors == {1, 2}

----------------------------------------------------------------------------
(* upscale_uiscripts *)

MaxPieces == 5      \* pieces a uiScript text is put together from

\* glob.glob(INPUT_DIR + "/**/*.uiScript"): one file, whose content Init draws
file_list == <<"a.uiScript">>
total == Len(file_list)

AreaEq == <<"a", "r", "e", "a", "=">>
GuttersEq == <<"g", "u", "t", "t", "e", "r", "s", "=">>
Area == <<"a", "r", "e", "a">>
Gutters == <<"g", "u", "t", "t", "e", "r", "s">>
Eq == <<"=">>

\* the fragments the input texts are concatenated from
Pieces == {AreaEq, GuttersEq, <<"(">>, <<")">>, <<",">>, <<"1">>, <<" ">>, <<"x">>}

RECURSIVE TextsOf(_)
TextsOf(n) ==
    IF n = 0 THEN {<<>>}
    ELSE LET shorter == TextsOf(n - 1) IN
         shorter \cup {p \o t : p \in Pieces, t \in shorter}

Texts == TextsOf(MaxPieces)

\* values = part.split("(")[1].split(")")[0]
ValuesOf(part) == Split(Split(part, <<"(">>)[2], <<")">>)[1]

\* for number in values.split(","): int(number) raises ValueError on one of them
ValuesParse(part) ==
    LET numbers == Split(ValuesOf(part), <<",">>) IN
    \A i \in 1..Len(numbers) : IsInt(numbers[i])

\* new_values, joined by ","
NewValues(part, zoom) ==
    LET numbers == Split(ValuesOf(part), <<",">>) IN
    Join([i \in 1..Len(numbers) |-> Str(Int_(numbers[i]) * zoom)], <<",">>)

\* one iteration of `for part in parts`
ReplacePart(part, name, zoom) ==
    IF ~StartsWith(part, <<"(">>) THEN part
    ELSE name \o Eq \o Replace(part, ValuesOf(part), NewValues(part, zoom))

\* _replace_coord_attribute raises ValueError
ReplaceRaises(text, name) ==
    LET parts == Split(text, name \o Eq) IN
    \E i \in 1..Len(parts) : StartsWith(parts[i], <<"(">>) /\ ~ValuesParse(parts[i])

\* _replace_coord_attribute(data, name)
_replace_coord_attribute(text, name, zoom) ==
    LET parts == Split(text, name \o Eq) IN
    Concat([i \in 1..Len(parts) |-> ReplacePart(parts[i], name, zoom)])

ScriptInit ==
    /\ current = 0
    /\ decodable \in BOOLEAN
    /\ original \in Texts
    /\ data = <<>>
    /\ written = None

\* for path in file_list: ... data = f.read()
ReadScript ==
    /\ pc = "next_script"
    /\ current < total
    /\ decodable
    /\ current' = current + 1
    /\ data' = original
    /\ pc' = "replace_area"
    /\ UNCHANGED <<notScript, decodable, original, written>>

\* except UnicodeDecodeError: shutil.copy(path, output_path); continue
CopyBinaryScript ==
    /\ pc = "next_script"
    /\ current < total
    /\ ~decodable
    /\ current' = current + 1
    /\ written' = original
    /\ pc' = "next_script"
    /\ UNCHANGED <<notScript, decodable, original, data>>

\* data = _replace_coord_attribute(data, "area")
ReplaceArea ==
    /\ pc = "replace_area"
    /\ IF ReplaceRaises(data, Area)
       THEN pc' = "crashed" /\ UNCHANGED data
       ELSE /\ data' = _replace_coord_attribute(data, Area, UI_ZOOM_FACTOR)
            /\ pc' = "replace_gutters"
    /\ UNCHANGED <<notScript, current, decodable, original, written>>

\* data = _replace_coord_attribute(data, "gutters")
ReplaceGutters ==
    /\ pc = "replace_gutters"
    /\ IF ReplaceRaises(data, Gutters)
       THEN pc' = "crashed" /\ UNCHANGED data
       ELSE /\ data' = _replace_coord_attribute(data, Gutters, UI_ZOOM_FACTOR)
            /\ pc' = "write_script"
    /\ UNCHANGED <<notScript, current, decodable, original, written>>

\* with open(output_path, "w") as f: f.writelines(data)
WriteScript ==
    /\ pc = "write_script"
    /\ written' = data
    /\ pc' = "next_script"
    /\ UNCHANGED <<notScript, current, decodable, original, data>>

\* the for loop of upscale_uiscripts is exhausted
ScriptsDone ==
    /\ pc = "next_script"
    /\ current = total
    /\ pc' = "done"
    /\ UNCHANGED <<notScript, scriptVars>>

InitGeom ==
    /\ pc = "next_script"
    /\ UI_ZOOM_FACTOR \in ZoomFactors
    /\ ScriptInit
    /\ FontIdle
    /\ SniffIdle
    /\ MainIdle
    /\ ArchIdle

NextGeom ==
    \/ ReadScript
    \/ CopyBinaryScript
    \/ ReplaceArea
    \/ ReplaceGutters
    \/ WriteScript
    \/ ScriptsDone

SpecGeom == InitGeom /\ [][NextGeom]_vars

----------------------------------------------------------------------------
(* Geometry Rewriter: the claims *)

\* the rewrite the Geometry Rewriter is specified to perform for one attribute:
\* every occurrence name=(n1,...,nk) has its tuple scaled where it stands, and
\* every other character is kept
ScaledInPlace(text, name, zoom) ==
    LET parts == Split(text, name \o Eq)
        tuple(part) == SubSeq(part, 2, Find(part, <<")">>) - 1)
        numbers(part) == Split(tuple(part), <<",">>)
        scaled(part) ==
            Join([i \in 1..Len(numbers(part)) |-> Str(Int_(numbers(part)[i]) * zoom)], <<",">>)
        isTuple(part) ==
            /\ StartsWith(part, <<"(">>)
            /\ Find(part, <<")">>) > 0
            /\ \A i \in 1..Len(numbers(part)) : IsInt(numbers(part)[i])
        rewritten(part) ==
            IF isTuple(part)
            THEN <<"(">> \o scaled(part) \o SubSeq(part, Find(part, <<")">>), Len(part))
            ELSE part
    IN  Join([i \in 1..Len(parts) |-> IF i = 1 THEN parts[1] ELSE rewritten(parts[i])],
             name \o Eq)

\* the text file at output_path has been written from a decoded input
ScriptWritten == pc = "next_script" /\ decodable /\ written # None

\* C5: for every text and both target attributes, each occurrence name=(n1,...,nk)
\* is replaced by name=(n1*ScaleFactor,...,nk*ScaleFactor) at its own position and
\* every other character of the file is identical to the input
C5_ScaledInPlaceOnly ==
    ScriptWritten =>
        written = ScaledInPlace(ScaledInPlace(original, Area, UI_ZOOM_FACTOR),
                                Gutters, UI_ZOOM_FACTOR)

\* the occurrences of name= that are not followed by "(" are the same in both
\* texts: same 'name=' prefix, same text up to the next occurrence
Untouched(before, after, name) ==
    LET pin == Split(before, name \o Eq)
        pout == Split(after, name \o Eq)
    IN  /\ Len(pout) = Len(pin)
        /\ \A k \in 2..Len(pin) : ~StartsWith(pin[k], <<"(">>) => pout[k] = pin[k]

\* C6: an occurrence of a target attribute whose value does not start with "("
\* is left untouched, 'name=' prefix and value, by the pass over that attribute
\* (stated for the pass over "area", which turns `original` into `data`, on the
\* texts whose head, the text before the first occurrence, is no "(")
C6_NonParenthesizedUntouched ==
    (pc = "replace_gutters" /\ ~StartsWith(original, <<"(">>)) =>
        Untouched(original, data, Area)

\* C7: with a scale factor of 1 the text written equals the text read
C7_IdentityAtScaleOne ==
    (ScriptWritten /\ UI_ZOOM_FACTOR = 1) => written = original

\* C5 on one input: area=(1)1 at scale 2 is written as area=(2)1
C5_OtherTextKept ==
    (ScriptWritten /\ UI_ZOOM_FACTOR = 2 /\ original = AreaEq \o <<"(", "1", ")", "1">>) =>
        written = AreaEq \o <<"(", "2", ")", "1">>

\* C7 on one input: area=( 1) at scale 1 is written as area=( 1)
C7_SpacedTupleKept ==
    (ScriptWritten /\ UI_ZOOM_FACTOR = 1 /\ original = AreaEq \o <<"(", " ", "1", ")">>) =>
        written = original

----------------------------------------------------------------------------
(* upscale_fontstyle_ini *)

MaxFontLen == 7        \* characters in FontStyle.ini

FONT_INCREASE_PT == 0  \* Properties.FONT_INCREASE_PT

Quote == <<"\"">>

FontAlphabet == {"\"", "5", "x", "\n"}

RECURSIVE StringsUpTo(_, _)
StringsUpTo(alphabet, n) ==
    IF n = 0 THEN {<<>>}
    ELSE LET shorter == StringsUpTo(alphabet, n - 1) IN
         shorter \cup {<<c>> \o t : c \in alphabet, t \in {u \in shorter : Len(u) = n - 1}}

FontTexts == StringsUpTo(FontAlphabet, MaxFontLen)

\* f.readlines(): the lines of the text, each with its line ending
RECURSIVE ReadLines(_)
ReadLines(text) ==
    LET i == Find(text, <<"\n">>) IN
    IF text = <<>> THEN <<>>
    ELSE IF i = 0 THEN <<text>>
    ELSE <<SubSeq(text, 1, i)>> \o ReadLines(SubSeq(text, i + 1, Len(text)))

\* new_size = (int(parts[3]) * PROPS.UI_ZOOM_FACTOR) + PROPS.FONT_INCREASE_PT
NewSize(old_size, zoom) == (Int_(old_size) * zoom) + FONT_INCREASE_PT

\* a slip in the threshold: a line of five parts is taken for a data line
IsShortLine_Five(parts) == Len(parts) < 5

\* len(parts) < 6
IsShortLine(parts) == Len(parts) < 6

\* parts[3] = str(new_size); '"'.join(parts)
RewriteLine(parts, zoom) ==
    Join([parts EXCEPT ![4] = Str(NewSize(parts[4], zoom))], Quote)

FontInit ==
    /\ fontText \in FontTexts \cup {None}
    /\ lines = <<>>
    /\ output = <<>>
    /\ fontOut = None

\* if not os.path.exists(in_path): return
SkipFont ==
    /\ pc = "font_start"
    /\ fontText = None
    /\ pc' = "done"
    /\ UNCHANGED <<notFont, fontVars>>

\* lines = f.readlines(); output = []
ReadFont ==
    /\ pc = "font_start"
    /\ fontText # None
    /\ lines' = ReadLines(fontText)
    /\ output' = <<>>
    /\ pc' = "font_loop"
    /\ UNCHANGED <<notFont, fontText, fontOut>>

\* one iteration of `for line in lines`
FontLine ==
    /\ pc = "font_loop"
    /\ Len(output) < Len(lines)
    /\ LET line == lines[Len(output) + 1]
           parts == Split(line, Quote)
       IN  IF IsShortLine(parts)
           THEN output' = Append(output, line) /\ pc' = "font_loop"
           ELSE IF ~IsInt(parts[4])
           THEN output' = output /\ pc' = "crashed"
           ELSE output' = Append(output, RewriteLine(parts, UI_ZOOM_FACTOR)) /\ pc' = "font_loop"
    /\ UNCHANGED <<notFont, fontText, lines, fontOut>>

\* with open(out_path, "w") as f: f.writelines(output)
WriteFont ==
    /\ pc = "font_loop"
    /\ Len(output) = Len(lines)
    /\ fontOut' = Concat(output)
    /\ pc' = "done"
    /\ UNCHANGED <<notFont, fontText, lines, output>>

InitFont ==
    /\ pc = "font_start"
    /\ UI_ZOOM_FACTOR \in ZoomFactors
    /\ ScriptIdle
    /\ FontInit
    /\ SniffIdle
    /\ MainIdle
    /\ ArchIdle

NextFont ==
    \/ SkipFont
    \/ ReadFont
    \/ FontLine
    \/ WriteFont

SpecFont == InitFont /\ [][NextFont]_vars

(* Font Table Rewriter: the claim *)

\* the positions of the quote characters of a line
QuotePositions(line) == {i \in 1..Len(line) : line[i] = "\""}

\* the position of the k-th quote character of a line
NthQuote(line, k) ==
    CHOOSE i \in QuotePositions(line) : Cardinality({j \in QuotePositions(line) : j <= i}) = k

\* the line the Font Table Rewriter is specified to emit for an input line: a line
\* with fewer than five quote characters as it is, a data line with the text
\* between its third and fourth quote replaced by the new size
ExpectedFontLine(line, zoom) ==
    IF Cardinality(QuotePositions(line)) < 5 THEN line
    ELSE LET q3 == NthQuote(line, 3)
             q4 == NthQuote(line, 4)
         IN  SubSeq(line, 1, q3)
                 \o Str(Int_(SubSeq(line, q3 + 1, q4 - 1)) * zoom + FONT_INCREASE_PT)
                 \o SubSeq(line, q4, Len(line))

----------------------------------------------------------------------------
(* filter_files_by_type *)

MaxBufLen == 4     \* bytes in the file whose content is enumerated

\* the bytes of the four signatures
SniffBytes == {0, 2, 10, 66, 77, 255, 216, 137, 80, 78, 71}

RECURSIVE BuffersUpTo(_)
BuffersUpTo(n) ==
    IF n = 0 THEN {<<>>}
    ELSE LET shorter == BuffersUpTo(n - 1) IN
         shorter \cup {<<b>> \o t : b \in SniffBytes, t \in {u \in shorter : Len(u) = n - 1}}

\* the argument `files`: two paths with misleading extensions
files == <<"a.jpg", "b.tga">>

\* the content drawn for the second file: a PNG signature and one more byte
SecondBuffers == {<<137, 80, 78, 71, 13>>}

\* s[:n]
Take(s, n) == SubSeq(s, 1, IF n < Len(s) THEN n ELSE Len(s))

\* a slip in the table: the run-length encoded Targa signature is left out
IsTga_Uncompressed(st) == Take(st, 3) = <<0, 0, 2>>

\* start[:3] in [b'\x00\x00\x02', b'\x00\x00\n']
IsTga(st) == Take(st, 3) \in {<<0, 0, 2>>, <<0, 0, 10>>}

\* start[:2] == b'BM'
IsBmp(st) == Take(st, 2) = <<66, 77>>

\* start[:3] == b'\xff\xd8\xff'
IsJpg(st) == Take(st, 3) = <<255, 216, 255>>

\* start[:4] == b'\x89PNG'
IsPng(st) == Take(st, 4) = <<137, 80, 78, 71>>

\* the number of paths classified so far
Classified == Len(tga) + Len(bmp) + Len(jpg) + Len(png) + Len(unknown)

SniffInit ==
    /\ content \in {[path \in {"a.jpg", "b.tga"} |-> IF path = "a.jpg" THEN b1 ELSE b2] :
                        b1 \in BuffersUpTo(MaxBufLen), b2 \in SecondBuffers}
    /\ start = <<>>
    /\ tga = <<>>
    /\ bmp = <<>>
    /\ jpg = <<>>
    /\ png = <<>>
    /\ unknown = <<>>

\* one iteration of `for path in files`
SniffFile ==
    /\ pc = "sniff"
    /\ Classified < Len(files)
    /\ LET path == files[Classified + 1]
           st == Take(content[path], 4)
       IN  /\ start' = st
           /\ tga' = IF IsTga(st) THEN Append(tga, path) ELSE tga
           /\ bmp' = IF ~IsTga(st) /\ IsBmp(st) THEN Append(bmp, path) ELSE bmp
           /\ jpg' = IF ~IsTga(st) /\ ~IsBmp(st) /\ IsJpg(st) THEN Append(jpg, path) ELSE jpg
           /\ png' = IF ~IsTga(st) /\ ~IsBmp(st) /\ ~IsJpg(st) /\ IsPng(st)
                     THEN Append(png, path) ELSE png
           /\ unknown' = IF ~IsTga(st) /\ ~IsBmp(st) /\ ~IsJpg(st) /\ ~IsPng(st)
                         THEN Append(unknown, path) ELSE unknown
    /\ pc' = "sniff"
    /\ UNCHANGED <<notSniff, content>>

\* return {"bmp": bmp, "jpg": jpg, "png": png, "tga": tga, "unknown": unknown}
SniffReturn ==
    /\ pc = "sniff"
    /\ Classified = Len(files)
    /\ pc' = "done"
    /\ UNCHANGED <<notSniff, sniffVars>>

InitSniff ==
    /\ pc = "sniff"
    /\ UI_ZOOM_FACTOR = 2
    /\ ScriptIdle
    /\ FontIdle
    /\ SniffInit
    /\ MainIdle
    /\ ArchIdle

NextSniff ==
    \/ SniffFile
    \/ SniffReturn

SpecSniff == InitSniff /\ [][NextSniff]_vars

(* Type Sniffer: the claim *)

\* the class the signature table gives a buffer
SignatureClass(buf) ==
    IF Len(buf) >= 3 /\ buf[1] = 0 /\ buf[2] = 0 /\ buf[3] \in {2, 10} THEN "tga"
    ELSE IF Len(buf) >= 2 /\ buf[1] = 66 /\ buf[2] = 77 THEN "bmp"
    ELSE IF Len(buf) >= 3 /\ buf[1] = 255 /\ buf[2] = 216 /\ buf[3] = 255 THEN "jpg"
    ELSE IF Len(buf) >= 4 /\ buf[1] = 137 /\ buf[2] = 80 /\ buf[3] = 78 /\ buf[4] = 71 THEN "png"
    ELSE "unknown"

\* the list of a class
ListOf(class) ==
    CASE class = "tga" -> tga
      [] class = "bmp" -> bmp
      [] class = "jpg" -> jpg
      [] class = "png" -> png
      [] class = "unknown" -> unknown

Classes == {"tga", "bmp", "jpg", "png", "unknown"}

\* C10: every file taken from `files` is in exactly one of the five lists, once,
\* and it is the list its leading bytes select through the signature table,
\* whatever its name; the files not yet taken are in no list
C10_ClassifiedBySignature ==
    \A class \in Classes :
        ListOf(class) = SelectSeq(SubSeq(files, 1, Classified),
                                  LAMBDA path : SignatureClass(content[path]) = class)

\* both files are classified, the one named .jpg as Targa by its bytes 00 00 0A and
\* the one named .tga as PNG
C10_Witness ==
    /\ pc = "done"
    /\ content["a.jpg"] = <<0, 0, 10>>
    /\ tga = <<"a.jpg">>
    /\ png = <<"b.tga">>

----------------------------------------------------------------------------
(* __main__: Properties, process_parameters, the preliminary checks, create_dirs,
   the three upscale stages *)

\* the extensions the preliminary checks look for
Categories == {"uiScript", "jpg", "simpe"}

\* check_input_files(check_name, ext)
check_input_files(ext) == ext \in inputFiles

\* checks = [check_input_files(...), check_input_files(...), check_input_files(...)]
checks == <<check_input_files("uiScript"), check_input_files("jpg"), check_input_files("simpe")>>

\* a slip in the test: the run stops only when every check failed
FalseInChecks_AllFalse(list) == \A i \in 1..Len(list) : list[i] = FALSE

\* False in checks
FalseInChecks(list) == \E i \in 1..Len(list) : list[i] = FALSE

\* the states in which the process has ended
Ended == {"done", "exit", "crashed", "killed"}

MainInit ==
    /\ inputFiles \in SUBSET Categories
    /\ tempDirExists \in BOOLEAN
    /\ outputDirExists \in BOOLEAN
    /\ ran = {}
    /\ created = {}
    /\ exitStatus = NoStatus
    /\ file_types = <<>>
    /\ queue = <<>>
    /\ tempFiles = [path \in {} |-> "absent"]
    /\ convertFailed = {}

\* class Properties: TEMP = tempfile.TemporaryDirectory(), when the module is loaded
DefineProperties ==
    /\ pc = "import"
    /\ created' = created \cup {"TEMP"}
    /\ pc' = "main"
    /\ UNCHANGED <<notMain, UI_ZOOM_FACTOR, inputVars, ran, exitStatus, graphicsVars>>

\* process_parameters(): --zoom-factor; --temp-dir and --output-dir are what
\* tempDirExists and outputDirExists stand for
process_parameters ==
    /\ pc = "main"
    /\ UI_ZOOM_FACTOR' \in ZoomFactors
    /\ pc' = "checks"
    /\ UNCHANGED <<notMain, mainVars>>

\* checks = [...]; if False in checks: exit(1)
PreliminaryChecks ==
    /\ pc = "checks"
    /\ IF FalseInChecks(checks)
       THEN pc' = "exit" /\ exitStatus' = "1"
       ELSE pc' = "create_dirs" /\ UNCHANGED exitStatus
    /\ UNCHANGED <<notMain, UI_ZOOM_FACTOR, inputVars, ran, created, graphicsVars>>

\* create_dirs(): shutil.copytree raises FileExistsError when TEMP_DIR exists
create_dirs ==
    /\ pc = "create_dirs"
    /\ ran' = ran \cup {"create_dirs"}
    /\ IF tempDirExists
       THEN /\ pc' = "crashed"
            /\ exitStatus' = "1"
            /\ UNCHANGED created
       ELSE /\ created' = created \cup {"TEMP_DIR"}
                              \cup (IF outputDirExists THEN {} ELSE {"OUTPUT_DIR"})
            /\ pc' = "upscale_uiscripts"
            /\ UNCHANGED exitStatus
    /\ UNCHANGED <<notMain, UI_ZOOM_FACTOR, inputVars, graphicsVars>>

\* upscale_uiscripts(): returns, or a ValueError of int() ends the run
upscale_uiscripts ==
    /\ pc = "upscale_uiscripts"
    /\ ran' = ran \cup {"upscale_uiscripts"}
    /\ created' = created \cup {"uiScript"}
    /\ \/ pc' = "upscale_fontstyle_ini" /\ UNCHANGED exitStatus
       \/ pc' = "crashed" /\ exitStatus' = "1"
    /\ UNCHANGED <<notMain, UI_ZOOM_FACTOR, inputVars, graphicsVars>>

\* upscale_fontstyle_ini(): skips a missing FontStyle.ini, writes the new one, or a
\* ValueError of int() ends the run
upscale_fontstyle_ini ==
    /\ pc = "upscale_fontstyle_ini"
    /\ ran' = ran \cup {"upscale_fontstyle_ini"}
    /\ \/ pc' = "upscale_graphics" /\ UNCHANGED <<created, exitStatus>>
       \/ /\ pc' = "upscale_graphics"
          /\ created' = created \cup {"FontStyle.ini"}
          /\ UNCHANGED exitStatus
       \/ pc' = "crashed" /\ exitStatus' = "1" /\ UNCHANGED created
    /\ UNCHANGED <<notMain, UI_ZOOM_FACTOR, inputVars, graphicsVars>>

----------------------------------------------------------------------------
(* upscale_graphics *)

\* what `convert` can leave at tempout, and the exit status it reports:
\* the resized image with status 0, or no file, a truncated file or a zero-byte
\* file with a non-zero status
ConvertOutcomes ==
    {[status |-> 0, out |-> "resized"],
     [status |-> 1, out |-> "absent"],
     [status |-> 1, out |-> "truncated"],
     [status |-> 1, out |-> "zero-byte"]}

\* the paths of one type, as filter_files_by_type lists them
PathsOfType(types, ext) == SelectSeq(RasterPaths, LAMBDA path : types[path] = ext)

\* for ext in file_types.keys(): for path in file_types[ext], the keys being
\* bmp, jpg, png, tga once "unknown" is deleted
ConvertOrder(types) ==
    PathsOfType(types, "bmp") \o PathsOfType(types, "jpg")
        \o PathsOfType(types, "png") \o PathsOfType(types, "tga")

\* file_list = glob.glob(...); file_types = filter_files_by_type(file_list);
\* the unknown files are copied as they are
SortGraphics ==
    /\ pc = "upscale_graphics"
    /\ ran' = ran \cup {"upscale_graphics"}
    /\ \E types \in [{RasterPaths[i] : i \in 1..Len(RasterPaths)} ->
                        {"bmp", "jpg", "png", "tga", "unknown"}] :
        /\ file_types' = types
        /\ queue' = ConvertOrder(types)
        /\ tempFiles' = [path \in DOMAIN types |->
                            IF types[path] = "unknown" THEN "copy" ELSE "absent"]
    /\ pc' = "convert"
    /\ UNCHANGED <<notMain, UI_ZOOM_FACTOR, inputVars, created, exitStatus, convertFailed>>

\* one iteration of `for path in file_types[ext]`: stage tempin, os.system(convert),
\* os.remove(tempin), os.rename(tempout, output); the status os.system returns is
\* dropped, and os.rename raises FileNotFoundError when tempout does not exist
ConvertGraphic ==
    /\ pc = "convert"
    /\ queue # <<>>
    /\ \E outcome \in ConvertOutcomes :
        LET path == Head(queue) IN
        /\ convertFailed' = IF outcome.status # 0 THEN convertFailed \cup {path}
                            ELSE convertFailed
        /\ IF outcome.out = "absent"
           THEN /\ pc' = "crashed"
                /\ exitStatus' = "1"
                /\ UNCHANGED tempFiles
           ELSE /\ tempFiles' = [tempFiles EXCEPT ![path] = outcome.out]
                /\ pc' = "convert"
                /\ UNCHANGED exitStatus
    /\ queue' = Tail(queue)
    /\ UNCHANGED <<notMain, UI_ZOOM_FACTOR, inputVars, ran, created, file_types>>

\* upscale_graphics returns
GraphicsDone ==
    /\ pc = "convert"
    /\ queue = <<>>
    /\ pc' = "package"
    /\ UNCHANGED <<notMain, UI_ZOOM_FACTOR, mainVars>>

\* signal.signal(signal.SIGINT, signal.SIG_DFL): CTRL+C ends the process where it is
Interrupt ==
    /\ pc \notin Ended
    /\ pc' = "killed"
    /\ exitStatus' = "SIGINT"
    /\ UNCHANGED <<notArch, archVars>>

Init ==
    /\ pc = "import"
    /\ UI_ZOOM_FACTOR = 2
    /\ ScriptIdle
    /\ FontIdle
    /\ SniffIdle
    /\ MainInit
    /\ ArchIdle

Next ==
    \/ DefineProperties
    \/ process_parameters
    \/ PreliminaryChecks
    \/ create_dirs
    \/ upscale_uiscripts
    \/ upscale_fontstyle_ini
    \/ SortGraphics
    \/ ConvertGraphic
    \/ GraphicsDone
    \/ Interrupt

Spec == Init /\ [][Next]_vars

(* The preliminary checks and the Raster Upscale Dispatcher: the claims *)

\* C4 as stated: a run whose input tree lacks one of the three categories exits
\* with status 1, having entered no stage and created nothing, no temporary
\* directory included
C4_NoSideEffectAtAll ==
    pc = "exit" => (exitStatus = "1" /\ ran = {} /\ created = {})

\* C4 as amended: a run whose input tree lacks one of the three categories never
\* gets past the preliminary checks, exits with status 1 unless interrupted, enters
\* no stage and creates nothing but the temporary directory TEMP that class
\* Properties makes before the checks
C4_OnlyTempBeforeExit ==
    inputFiles # Categories =>
        /\ pc \in {"import", "main", "checks", "exit", "killed"}
        /\ pc = "exit" => exitStatus = "1"
        /\ ran = {}
        /\ created \subseteq {"TEMP"}

\* the run has exited at the checks on an input tree that lacks only the UI scripts
C4_Witness ==
    /\ pc = "exit"
    /\ inputFiles = {"jpg", "simpe"}
    /\ exitStatus = "1"
    /\ created = {"TEMP"}

\* C3: a raster file whose `convert` exited non-zero ends the build there, and the
\* temporary tree never holds a file for it
C3_ConvertFailureSurfaced ==
    convertFailed # {} =>
        /\ pc \in {"crashed", "killed"}
        /\ \A path \in convertFailed : tempFiles[path] = "absent"

----------------------------------------------------------------------------
(* create_dbpf_package, and the clean up of __main__ *)

MaxSidecars == 2     \* sidecars in the temporary tree

PackageXml == <<"p", "a", "c", "k", "a", "g", "e", ".", "x", "m", "l">>
DotXml == <<".", "x", "m", "l">>

\* the sidecars the temporary tree can hold, in the order glob.glob lists them:
\* package.xml, a.xml, b.xml, mypackage.xml
SidecarPaths ==
    << <<"/">> \o PackageXml,
       <<"/", "a">> \o DotXml,
       <<"/", "b">> \o DotXml,
       <<"/", "m", "y">> \o PackageXml >>

\* a sidecar without a line for a tag
Missing == -1

\* what a sidecar holds for its tags <number>, <group> and <instance>
TagValues == [number : {Missing, 1}, group : {Missing, 1, 11}, instance : {Missing, 1, 11}]

\* _get_xml_attribute(xml_path, attrib): the integer of the first line that
\* starts with the tag, 0 when no line does
_get_xml_attribute(xml, attrib) == IF xml[attrib] = Missing THEN 0 ELSE xml[attrib]

\* a slip in the key: the two numbers joined with nothing between them
Uuid_NoSeparator(group_id, instance_id) == Str(group_id) \o Str(instance_id)

\* uuid = str(group_id) + "_" + str(instance_id)
Uuid(group_id, instance_id) == Str(group_id) \o <<"_">> \o Str(instance_id)

\* xml_path.endswith("package.xml")
SkippedAsManifest(xml_path) == EndsWith(xml_path, PackageXml)

\* the k-th smallest element of a set of numbers
RECURSIVE Nth(_, _)
Nth(S, k) ==
    LET least == CHOOSE i \in S : \A j \in S : i <= j IN
    IF k = 1 THEN least ELSE Nth(S \ {least}, k - 1)

ArchInit ==
    /\ previous \in BOOLEAN
    /\ dest = IF previous THEN "previous" ELSE "absent"
    /\ xml_files = <<>>
    /\ handled = 0
    /\ uuids = <<>>
    /\ added = <<>>
    /\ skipped = <<>>

\* if os.path.exists(output_path): os.remove(output_path)
RemoveExisting ==
    /\ pc = "package"
    /\ dest' = "absent"
    /\ pc' = "create_empty"
    /\ exitStatus' = exitStatus
    /\ UNCHANGED <<notArch, previous, xml_files, handled, uuids, added, skipped>>

\* open(output_path, "wb").close()
CreateEmpty ==
    /\ pc = "create_empty"
    /\ dest' = "empty"
    /\ pc' = "glob"
    /\ exitStatus' = exitStatus
    /\ UNCHANGED <<notArch, previous, xml_files, handled, uuids, added, skipped>>

\* package = dbpf.DBPF(output_path); xml_files = glob.glob(...); uuids = []
GlobSidecars ==
    /\ pc = "glob"
    /\ \E S \in SUBSET (1..Len(SidecarPaths)) :
        /\ Cardinality(S) <= MaxSidecars
        /\ \E tags \in [S -> TagValues] :
            xml_files' = [k \in 1..Cardinality(S) |->
                            [xml_path |-> SidecarPaths[Nth(S, k)],
                             number |-> tags[Nth(S, k)].number,
                             group |-> tags[Nth(S, k)].group,
                             instance |-> tags[Nth(S, k)].instance]]
    /\ handled' = 0
    /\ uuids' = <<>>
    /\ pc' = "resolve"
    /\ exitStatus' = exitStatus
    /\ UNCHANGED <<notArch, previous, dest, added, skipped>>

\* one iteration of `for xml_path in xml_files`
ResolveSidecar ==
    /\ pc = "resolve"
    /\ handled < Len(xml_files)
    /\ handled' = handled + 1
    /\ LET xml == xml_files[handled + 1]
           file_path == Replace(xml.xml_path, DotXml, <<>>)
           type_id == _get_xml_attribute(xml, "number")
           group_id == _get_xml_attribute(xml, "group")
           instance_id == _get_xml_attribute(xml, "instance")
           uuid == Uuid(group_id, instance_id)
       IN  IF SkippedAsManifest(xml.xml_path)
           THEN UNCHANGED <<uuids, added, skipped>>
           ELSE IF \E i \in 1..Len(uuids) : uuids[i] = uuid
           THEN /\ skipped' = Append(skipped, xml.xml_path)
                /\ UNCHANGED <<uuids, added>>
           ELSE /\ uuids' = Append(uuids, uuid)
                /\ added' = Append(added, [type_id |-> type_id, group_id |-> group_id,
                                           instance_id |-> instance_id,
                                           file_path |-> file_path])
                /\ UNCHANGED skipped
    /\ pc' = "resolve"
    /\ exitStatus' = exitStatus
    /\ UNCHANGED <<notArch, previous, dest, xml_files>>

\* package.save(output_path)
SavePackage ==
    /\ pc = "resolve"
    /\ handled = Len(xml_files)
    /\ dest' = "new"
    /\ pc' = "cleanup"
    /\ exitStatus' = exitStatus
    /\ UNCHANGED <<notArch, previous, xml_files, handled, uuids, added, skipped>>

\* PROPS.TEMP.cleanup(), and the script ends
Cleanup ==
    /\ pc = "cleanup"
    /\ pc' = "done"
    /\ exitStatus' = "0"
    /\ UNCHANGED <<notArch, archVars>>

\* the state in which __main__ calls create_dbpf_package: every stage has run, the
\* raster files, of no known type, were copied
InitArchive ==
    /\ pc = "package"
    /\ UI_ZOOM_FACTOR = 2
    /\ ScriptIdle
    /\ FontIdle
    /\ SniffIdle
    /\ ArchInit
    /\ inputFiles = Categories
    /\ tempDirExists = FALSE
    /\ outputDirExists = previous
    /\ ran = {"create_dirs", "upscale_uiscripts", "upscale_fontstyle_ini", "upscale_graphics"}
    /\ created = {"TEMP", "TEMP_DIR", "uiScript"} \cup (IF previous THEN {} ELSE {"OUTPUT_DIR"})
    /\ exitStatus = NoStatus
    /\ file_types = [path \in {RasterPaths[i] : i \in 1..Len(RasterPaths)} |-> "unknown"]
    /\ queue = <<>>
    /\ tempFiles = [path \in {RasterPaths[i] : i \in 1..Len(RasterPaths)} |-> "copy"]
    /\ convertFailed = {}

NextArchive ==
    \/ RemoveExisting
    \/ CreateEmpty
    \/ GlobSidecars
    \/ ResolveSidecar
    \/ SavePackage
    \/ Cleanup
    \/ Interrupt

SpecArchive == InitArchive /\ [][NextArchive]_vars

(* Archive Assembler and Identity Resolver: the claims *)

\* the sidecars taken so far that the loop did not pass over as the manifest
Offered == SelectSeq(SubSeq(xml_files, 1, handled),
                     LAMBDA xml : ~SkippedAsManifest(xml.xml_path))

\* the identity a sidecar resolves to: its tags, 0 for a missing one
TagOrZero(v) == IF v = Missing THEN 0 ELSE v

\* no sidecar before the k-th has the group and instance of the k-th
IsFirst(seq, k) ==
    \A j \in 1..(k - 1) :
        <<TagOrZero(seq[j].group), TagOrZero(seq[j].instance)>>
            # <<TagOrZero(seq[k].group), TagOrZero(seq[k].instance)>>

\* the indices up to k of the sidecars that are (first = TRUE) or are not
\* (first = FALSE) the first of their group and instance, in order
RECURSIVE Indices(_, _, _)
Indices(seq, k, first) ==
    IF k = 0 THEN <<>>
    ELSE Indices(seq, k - 1, first) \o (IF IsFirst(seq, k) = first THEN <<k>> ELSE <<>>)

\* C1: a resource is registered only if no earlier resource of the build had its
\* (group_id, instance_id); a later one is skipped and reported, whatever its
\* type_id, the first registration is kept and the build goes on; so no two
\* registered entries share (group_id, instance_id)
C1_FirstWriteWins ==
    LET firsts == Indices(Offered, Len(Offered), TRUE)
        laters == Indices(Offered, Len(Offered), FALSE)
    IN  /\ Len(added) = Len(firsts)
        /\ \A n \in 1..Len(firsts) :
            /\ added[n].group_id = TagOrZero(Offered[firsts[n]].group)
            /\ added[n].instance_id = TagOrZero(Offered[firsts[n]].instance)
            /\ added[n].type_id = TagOrZero(Offered[firsts[n]].number)
            /\ added[n].file_path \o DotXml = Offered[firsts[n]].xml_path
        /\ skipped = [n \in 1..Len(laters) |-> Offered[laters[n]].xml_path]
        /\ \A m, n \in 1..Len(added) :
            (added[m].group_id = added[n].group_id
                /\ added[m].instance_id = added[n].instance_id) => m = n
        /\ skipped # <<>> => pc \in {"resolve", "cleanup", "done", "killed"}

\* the package is saved with one entry, a.xml's, after b.xml, of the same group and
\* instance and another type, was skipped
C1_Witness ==
    /\ pc = "done"
    /\ Len(xml_files) = 2
    /\ xml_files[1].number # xml_files[2].number
    /\ Len(added) = 1
    /\ added[1].file_path = <<"/", "a">>
    /\ skipped = << <<"/", "b">> \o DotXml >>

\* the sidecar of the archive as a whole: the file named package.xml
IsManifest(xml_path) == EndsWith(xml_path, <<"/">> \o PackageXml)

\* the number of registrations and duplicate reports made for a sidecar
TimesOffered(xml) ==
    Cardinality({n \in 1..Len(added) : added[n].file_path \o DotXml = xml.xml_path})
        + Cardinality({n \in 1..Len(skipped) : skipped[n] = xml.xml_path})

\* C9: when the loop is over the manifest sidecar was never offered for
\* registration, and every other sidecar was offered exactly once, under the
\* identity of its three tags with 0 for a missing tag
C9_EverySidecarOffered ==
    (pc \in {"cleanup", "done"}) =>
        \A k \in 1..Len(xml_files) :
            LET xml == xml_files[k] IN
            IF IsManifest(xml.xml_path) THEN TimesOffered(xml) = 0
            ELSE /\ TimesOffered(xml) = 1
                 /\ \A n \in 1..Len(added) :
                        added[n].file_path \o DotXml = xml.xml_path =>
                            /\ added[n].type_id = TagOrZero(xml.number)
                            /\ added[n].group_id = TagOrZero(xml.group)
                            /\ added[n].instance_id = TagOrZero(xml.instance)

\* C9 on the runs in which package.xml is the only sidecar whose name ends in
\* "package.xml"
C9_OnOtherNames ==
    (\A k \in 1..Len(xml_files) :
        SkippedAsManifest(xml_files[k].xml_path) => IsManifest(xml_files[k].xml_path))
    => C9_EverySidecarOffered

\* C2: when an archive of an earlier run was at the destination, the destination
\* holds that archive or the complete new one at every point of the run
C2_PreviousArchiveKept ==
    previous => dest \in {"previous", "new"}

====
